---- MODULE Spec2Model ----
(***************************************************************************)
(* The three AI4ArtsEd nodes: the OpenRouter text relay (run), the         *)
(* OpenRouter image analysis relay (analyze) and the T5-CLIP fusion node   *)
(* (fuse).  One behaviour is one invocation of one node by the host.       *)
(*                                                                         *)
(* Python strings are sequences of characters, Python values are records   *)
(* tagged by a kind, a response body is the JSON value its text denotes    *)
(* (or a text that does not parse), tensors are a shape with row-major     *)
(* data, and tensor elements are exact rationals <<numerator, denom>>.     *)
(***************************************************************************)
EXTENDS Integers, Sequences, FiniteSets, TLC

VARIABLES node, pc, args, env, sent, reply, opened, handed, log, outcome

vars == <<node, pc, args, env, sent, reply, opened, handed, log, outcome>>

(***************************************************************************)
(* Outcomes of a call: a returned value or a raised exception.             *)
(***************************************************************************)
NoOutcome == [kind |-> "none"]

Return(v) == [kind |-> "return", value |-> v]

Raise(exc, msg) == [kind |-> "raise", exc |-> exc, msg |-> msg]

IsError(x) == x.kind = "raise"

(***************************************************************************)
(* Strings.                                                                *)
(***************************************************************************)
Whitespace == {" ", "\n", "\t"}

RECURSIVE LStrip(_)
LStrip(s) ==
    IF s = <<>> THEN <<>>
    ELSE IF Head(s) \in Whitespace THEN LStrip(Tail(s)) ELSE s

RECURSIVE RStrip(_)
RStrip(s) ==
    IF s = <<>> THEN <<>>
    ELSE IF s[Len(s)] \in Whitespace THEN RStrip(SubSeq(s, 1, Len(s) - 1)) ELSE s

Strip(s) == RStrip(LStrip(s))

(***************************************************************************)
(* JSON values and the reading of choices[0].message.content.              *)
(***************************************************************************)
JStr(s) == [kind |-> "jstr", s |-> s]

JNull == [kind |-> "jnull"]

JArr(a) == [kind |-> "jarr", a |-> a]

JObj(f) == [kind |-> "jobj", f |-> f]

\* response.text that is not JSON at all
RawText(t) == [kind |-> "raw", t |-> t]

\* response.json()
ResponseJson(text) ==
    IF text.kind = "raw" THEN Raise("JSONDecodeError", <<>>) ELSE text

\* v[key] for a string key
GetKey(v, key) ==
    IF IsError(v) THEN v
    ELSE IF v.kind = "jobj"
         THEN IF key \in DOMAIN v.f THEN v.f[key] ELSE Raise("KeyError", <<>>)
         ELSE IF v.kind = "jarr" \/ v.kind = "jstr" THEN Raise("TypeError", <<>>)
         ELSE Raise("TypeError", <<>>)

\* v[0]
GetFirst(v) ==
    IF IsError(v) THEN v
    ELSE IF v.kind = "jarr"
         THEN IF Len(v.a) >= 1 THEN v.a[1] ELSE Raise("IndexError", <<>>)
         ELSE IF v.kind = "jobj" THEN Raise("KeyError", <<>>)
         ELSE IF v.kind = "jstr"
              THEN IF Len(v.s) >= 1 THEN JStr(<<v.s[1]>>) ELSE Raise("IndexError", <<>>)
              ELSE Raise("TypeError", <<>>)

\* result["choices"][0]["message"]["content"]
ContentOf(result) ==
    GetKey(GetKey(GetFirst(GetKey(result, "choices")), "message"), "content")

\* the Python value of a JSON leaf handed back to the host
PyOf(v) == IF v.kind = "jstr" THEN v.s ELSE v

(***************************************************************************)
(* The HTTP exchange.                                                      *)
(***************************************************************************)
Url == "https://openrouter.ai/api/v1/chat/completions"

Status200 == 200

Response(status, text) == [kind |-> "response", status_code |-> status, text |-> text]

NetError == [kind |-> "neterror"]

Lit(s) == [part |-> "lit", val |-> s]

StatusPart(n) == [part |-> "status", val |-> n]

TextPart(t) == [part |-> "text", val |-> t]

HasStatus(msg, n) == \E i \in DOMAIN msg : msg[i].part = "status" /\ msg[i].val = n

HasText(msg, t) == \E i \in DOMAIN msg : msg[i].part = "text" /\ msg[i].val = t

(***************************************************************************)
(* ai4artsed_openrouter                                                    *)
(***************************************************************************)
NoKeyMsg == <<Lit("[AI4ArtsEd OpenRouter Node] No API key provided and openrouter.key not found.")>>

\* open(key_path, "r") followed by f.read()
ReadKeyFile(file) ==
    IF file.state = "ok" THEN [kind |-> "str", s |-> file.content]
    ELSE Raise(file.state, <<>>)

get_api_key(user_input_key, file) ==
    IF Strip(user_input_key) # <<>>
    THEN [kind |-> "str", s |-> Strip(user_input_key), opens |-> 0]
    ELSE LET r == ReadKeyFile(file)
         IN IF IsError(r)
            THEN [kind |-> "raise", exc |-> "Exception", msg |-> NoKeyMsg, opens |-> 1]
            ELSE [kind |-> "str", s |-> Strip(r.s), opens |-> 1]

full_prompt(a) ==
    <<"Task:\n">> \o Strip(a.style_prompt) \o <<"\n\nContext:\n">>
        \o Strip(a.input_context) \o <<"\nPrompt:\n">> \o Strip(a.input_prompt)

SystemMessage == "You are a fresh assistant instance. Forget all previous conversation history."

RunRequest(a, key) ==
    [url |-> Url,
     bearer |-> key,
     model |-> a.model,
     messages |-> <<[role |-> "system", content |-> <<SystemMessage>>],
                    [role |-> "user", content |-> full_prompt(a)]>>,
     temperature |-> <<7, 10>>]

RunApiErrorNoBody(status, text) ==
    Raise("Exception",
          <<Lit("[AI4ArtsEd OpenRouter Node] API Error: "), StatusPart(status)>>)

RunApiError(status, text) ==
    Raise("Exception",
          <<Lit("[AI4ArtsEd OpenRouter Node] API Error: "), StatusPart(status),
            Lit("\n"), TextPart(text)>>)

RunDebugLines(a, output_text) ==
    <<">>> AI4ARTSED OPENROUTER NODE <<<", "Model:", "Prompt sent:", "Response received:">>

RunOutputStripped(output_text) ==
    IF IsError(output_text) THEN output_text
    ELSE IF output_text.kind = "jstr" THEN Return(<<Strip(output_text.s)>>)
    ELSE Return(<<PyOf(output_text)>>)

RunOutput(output_text) ==
    IF IsError(output_text) THEN output_text ELSE Return(<<PyOf(output_text)>>)

RunPostTwice(a, key) == <<RunRequest(a, key), RunRequest(a, key)>>

\* the requests that requests.post(url, headers=headers, data=...) puts on the wire
RunPost(a, key) == <<RunRequest(a, key)>>

\* run up to and including the call of requests.post
run_send ==
    /\ node = "text"
    /\ pc = "start"
    /\ LET k == get_api_key(args.api_key, env.keyfile)
       IN /\ opened' = opened + k.opens
          /\ IF IsError(k)
             THEN /\ outcome' = Raise(k.exc, k.msg)
                  /\ pc' = "done"
                  /\ sent' = sent
             ELSE /\ sent' = sent \o RunPost(args, k.s)
                  /\ pc' = "waiting"
                  /\ outcome' = outcome
    /\ UNCHANGED <<node, args, env, reply, handed, log>>

\* run from the return of requests.post to its own return
run_receive(r) ==
    /\ node = "text"
    /\ pc = "waiting"
    /\ pc' = "done"
    /\ reply' = r
    /\ IF r.kind = "neterror"
       THEN /\ outcome' = Raise("ConnectionError", <<>>)
            /\ log' = log
       ELSE IF r.status_code # Status200
       THEN /\ outcome' = RunApiError(r.status_code, r.text)
            /\ log' = log
       ELSE LET output_text == ContentOf(ResponseJson(r.text))
            IN /\ outcome' = RunOutput(output_text)
               /\ log' = IF ~IsError(output_text) /\ args.debug = "enable"
                         THEN log \o RunDebugLines(args, output_text)
                         ELSE log
    /\ UNCHANGED <<node, args, env, sent, opened, handed>>

(***************************************************************************)
(* ai4artsed_openrouter_imageanalysis                                      *)
(***************************************************************************)
Channels == {1, 3, 4}

Image(dtype, shape) == [kind |-> "image", dtype |-> dtype, shape |-> shape]

\* image.transpose(2, 0, 1)
Transpose201(image) ==
    [image EXCEPT !.shape = <<image.shape[3], image.shape[1], image.shape[2]>>]

\* image.transpose(1, 2, 0)
Transpose120(image) ==
    [image EXCEPT !.shape = <<image.shape[2], image.shape[3], image.shape[1]>>]

PrepareNoTranspose(image) ==
    IF Len(image.shape) # 3 \/ image.shape[1] \notin Channels
    THEN Raise("ValueError", <<Lit("Unsupported image shape: expected channels first, got shape "),
                               TextPart(image.shape)>>)
    ELSE image

_prepare_image_array(image) ==
    LET moved == IF /\ Len(image.shape) = 3
                    /\ image.shape[1] \notin Channels
                    /\ image.shape[Len(image.shape)] \in Channels
                 THEN Transpose201(image)
                 ELSE image
    IN IF Len(moved.shape) # 3 \/ moved.shape[1] \notin Channels
       THEN Raise("ValueError", <<Lit("Unsupported image shape: expected channels first, got shape "),
                                  TextPart(moved.shape)>>)
       ELSE moved

\* cv2.cvtColor(image, cv2.COLOR_BGR2RGB) accepts 3 or 4 channels and gives 3
CvtColorChannels == {3, 4}

_encode_image(image_array, imencode_ok) ==
    LET image == Transpose120(image_array)
    IN IF image.shape[3] \notin CvtColorChannels THEN Raise("cv2.error", <<>>)
       ELSE IF ~imencode_ok THEN Raise("RuntimeError", <<Lit("Failed to encode image")>>)
       ELSE [kind |-> "str",
             s |-> [scheme |-> "data:image/jpeg;base64,",
                    height |-> image.shape[1], width |-> image.shape[2],
                    scaled |-> image.dtype # "uint8"]]

AnalyzeRequest(a, encoded_image) ==
    [url |-> Url,
     bearer |-> a.api_key,
     model |-> a.model,
     messages |-> <<[role |-> "user",
                     content |-> <<[type |-> "image_url", image_url |-> encoded_image],
                                   [type |-> "text", text |-> a.instruction]>>]>>,
     temperature |-> a.temperature,
     max_tokens |-> a.max_tokens]

AnalyzeApiError(status, text) ==
    Raise("RuntimeError",
          <<Lit("OpenRouter API error "), StatusPart(status), Lit(": "), TextPart(text)>>)

\* the requests that requests.post(url, json=payload, headers=headers) puts on the wire
AnalyzePost(a, encoded_image) == <<AnalyzeRequest(a, encoded_image)>>

\* images[0]
FirstImage(images) ==
    IF images = <<>> THEN Raise("IndexError", <<>>) ELSE images[1]

\* analyze up to and including the call of requests.post
analyze_send ==
    /\ node = "vision"
    /\ pc = "start"
    /\ LET image == FirstImage(args.images)
           image_np == IF IsError(image) THEN image ELSE _prepare_image_array(image)
           encoded_image == IF IsError(image_np) THEN image_np
                            ELSE _encode_image(image_np, env.imencode_ok)
       IN /\ handed' = IF IsError(image_np) THEN handed ELSE Append(handed, image_np)
          /\ IF IsError(encoded_image)
             THEN /\ outcome' = Raise(encoded_image.exc, encoded_image.msg)
                  /\ pc' = "done"
                  /\ sent' = sent
             ELSE /\ sent' = sent \o AnalyzePost(args, encoded_image.s)
                  /\ pc' = "waiting"
                  /\ outcome' = outcome
    /\ UNCHANGED <<node, args, env, reply, opened, log>>

\* analyze from the return of requests.post to its own return
analyze_receive(r) ==
    /\ node = "vision"
    /\ pc = "waiting"
    /\ pc' = "done"
    /\ reply' = r
    /\ IF r.kind = "neterror"
       THEN outcome' = Raise("ConnectionError", <<>>)
       ELSE IF r.status_code # Status200
       THEN outcome' = AnalyzeApiError(r.status_code, r.text)
       ELSE outcome' = RunOutput(ContentOf(ResponseJson(r.text)))
    /\ UNCHANGED <<node, args, env, sent, opened, handed, log>>

(***************************************************************************)
(* Exact rational arithmetic for tensor elements: <<n, d>> with d > 0 and  *)
(* n, d coprime.                                                           *)
(***************************************************************************)
Abs(x) == IF x < 0 THEN -x ELSE x

RECURSIVE GCD(_, _)
GCD(a, b) == IF b = 0 THEN a ELSE GCD(b, a % b)

Rat(n, d) == LET g == GCD(Abs(n), d) IN <<n \div g, d \div g>>

Zero == <<0, 1>>

RAdd(x, y) ==
    LET g == GCD(x[2], y[2])
    IN Rat(x[1] * (y[2] \div g) + y[1] * (x[2] \div g), (x[2] \div g) * y[2])

RMul(x, y) ==
    LET g1 == GCD(Abs(x[1]), y[2])
        g2 == GCD(Abs(y[1]), x[2])
    IN <<(x[1] \div g1) * (y[1] \div g2), (x[2] \div g2) * (y[2] \div g1)>>

RInv(x) == IF x[1] > 0 THEN <<x[2], x[1]>> ELSE <<-x[2], -x[1]>>

RDiv(x, y) == RMul(x, RInv(y))

ISqrt(n) == CHOOSE r \in 0..n : r * r = n

RSqrt(x) == <<ISqrt(x[1]), ISqrt(x[2])>>

RECURSIVE SeqSum(_)
SeqSum(q) == IF q = <<>> THEN Zero ELSE RAdd(Head(q), SeqSum(Tail(q)))

(***************************************************************************)
(* Tensors: a shape and the elements in row-major order.  Multi-indices    *)
(* and offsets count from 0.                                               *)
(***************************************************************************)
Tensor(shape, data) == [kind |-> "tensor", shape |-> shape, data |-> data]

IsTensor(x) == x.kind = "tensor"

RECURSIVE Numel(_)
Numel(shape) == IF shape = <<>> THEN 1 ELSE Head(shape) * Numel(Tail(shape))

Stride(shape, j) == Numel(SubSeq(shape, j + 1, Len(shape)))

Unravel(k, shape) == [j \in 1..Len(shape) |-> (k \div Stride(shape, j)) % shape[j]]

RECURSIVE RavelFrom(_, _, _)
RavelFrom(m, shape, j) ==
    IF j > Len(shape) THEN 0 ELSE m[j] * Stride(shape, j) + RavelFrom(m, shape, j + 1)

At(t, m) == t.data[RavelFrom(m, t.shape, 1) + 1]

Ones(n) == [j \in 1..n |-> 1]

Max(a, b) == IF a >= b THEN a ELSE b

\* t.size(-1)
SizeLast(t) ==
    IF Len(t.shape) < 1 THEN Raise("IndexError", <<>>)
    ELSE [kind |-> "int", n |-> t.shape[Len(t.shape)]]

\* t.size(1)
Size1(t) ==
    IF Len(t.shape) < 2 THEN Raise("IndexError", <<>>)
    ELSE [kind |-> "int", n |-> t.shape[2]]

\* torch.zeros(1, n)
Zeros1(n) == Tensor(<<1, n>>, [k \in 1..n |-> Zero])

\* t.mean(dim=1)
MeanDim1(t) ==
    IF Len(t.shape) < 2 THEN Raise("IndexError", <<>>)
    ELSE LET s == t.shape
             out == <<s[1]>> \o SubSeq(s, 3, Len(s))
         IN Tensor(out, [k \in 1..Numel(out) |->
                LET m == Unravel(k - 1, out)
                IN RDiv(SeqSum([i \in 1..s[2] |->
                                  At(t, <<m[1], i - 1>> \o SubSeq(m, 2, Len(m)))]),
                        <<s[2], 1>>)])

\* t.norm(dim=-1, keepdim=True)
NormLastKeep(t) ==
    IF IsError(t) THEN t
    ELSE LET s == t.shape
             r == Len(s)
             out == SubSeq(s, 1, r - 1) \o <<1>>
         IN Tensor(out, [k \in 1..Numel(out) |->
                LET m == Unravel(k - 1, out)
                IN RSqrt(SeqSum([f \in 1..s[r] |->
                       LET x == At(t, SubSeq(m, 1, r - 1) \o <<f - 1>>)
                       IN RMul(x, x)]))])

\* t + c for a Python number c
AddScalar(t, c) ==
    IF IsError(t) THEN t
    ELSE Tensor(t.shape, [k \in DOMAIN t.data |-> RAdd(t.data[k], c)])

\* c * t for a Python number c
Scale(c, t) ==
    IF IsError(t) THEN t
    ELSE Tensor(t.shape, [k \in DOMAIN t.data |-> RMul(c, t.data[k])])

Padded(shape, r) == Ones(r - Len(shape)) \o shape

Broadcastable(a, b) ==
    LET r == Max(Len(a), Len(b))
        pa == Padded(a, r)
        pb == Padded(b, r)
    IN \A j \in 1..r : pa[j] = pb[j] \/ pa[j] = 1 \/ pb[j] = 1

BroadcastShape(a, b) ==
    LET r == Max(Len(a), Len(b))
        pa == Padded(a, r)
        pb == Padded(b, r)
    IN [j \in 1..r |-> Max(pa[j], pb[j])]

\* the element of t that broadcasting puts at multi-index m of the result
BAt(t, m) ==
    LET off == Len(m) - Len(t.shape)
    IN At(t, [j \in 1..Len(t.shape) |-> IF t.shape[j] = 1 THEN 0 ELSE m[off + j]])

\* a / b, elementwise with broadcasting
Divide(a, b) ==
    IF IsError(a) THEN a
    ELSE IF IsError(b) THEN b
    ELSE IF ~Broadcastable(a.shape, b.shape) THEN Raise("RuntimeError", <<>>)
    ELSE LET out == BroadcastShape(a.shape, b.shape)
         IN Tensor(out, [k \in 1..Numel(out) |->
                LET m == Unravel(k - 1, out) IN RDiv(BAt(a, m), BAt(b, m))])

\* a + b, elementwise with broadcasting
Add(a, b) ==
    IF IsError(a) THEN a
    ELSE IF IsError(b) THEN b
    ELSE IF ~Broadcastable(a.shape, b.shape) THEN Raise("RuntimeError", <<>>)
    ELSE LET out == BroadcastShape(a.shape, b.shape)
         IN Tensor(out, [k \in 1..Numel(out) |->
                LET m == Unravel(k - 1, out) IN RAdd(BAt(a, m), BAt(b, m))])

\* t.unsqueeze(1)
Unsqueeze1(t) ==
    IF IsError(t) THEN t
    ELSE IF Len(t.shape) < 1 THEN Raise("IndexError", <<>>)
    ELSE Tensor(<<t.shape[1], 1>> \o Tail(t.shape), t.data)

\* t.repeat(*reps)
Repeat(t, reps) ==
    IF IsError(t) THEN t
    ELSE IF Len(reps) < Len(t.shape) THEN Raise("RuntimeError", <<>>)
    ELSE LET ps == Padded(t.shape, Len(reps))
             pt == Tensor(ps, t.data)
             out == [j \in 1..Len(reps) |-> ps[j] * reps[j]]
         IN Tensor(out, [k \in 1..Numel(out) |->
                LET m == Unravel(k - 1, out)
                IN At(pt, [j \in 1..Len(reps) |-> m[j] % ps[j]])])

(***************************************************************************)
(* Python values reaching fuse.                                            *)
(***************************************************************************)
PyNone == [kind |-> "None"]

PyStr(s) == [kind |-> "str", s |-> s]

PyTuple(items) == [kind |-> "tuple", items |-> items]

PyList(items) == [kind |-> "list", items |-> items]

PyDict(entries) == [kind |-> "dict", entries |-> entries]

IsSeq(x) == x.kind \in {"tuple", "list"}

\* len(x) if hasattr(x, '__len__') else 'N/A'
PyLen(x) ==
    IF IsSeq(x) THEN [kind |-> "int", n |-> Len(x.items)]
    ELSE IF x.kind = "str" THEN [kind |-> "int", n |-> Len(x.s)]
    ELSE IF x.kind = "dict" THEN [kind |-> "int", n |-> Cardinality(DOMAIN x.entries)]
    ELSE IF x.kind = "tensor"
         THEN IF x.shape = <<>> THEN Raise("TypeError", <<Lit("len() of a 0-d tensor")>>)
              ELSE [kind |-> "int", n |-> x.shape[1]]
    ELSE [kind |-> "str", s |-> "N/A"]

(***************************************************************************)
(* ai4artsed_t5_clip_fusion                                                *)
(***************************************************************************)
EpsInv == 100000000

Eps == <<1, EpsInv>>

Extracted(tokens, pooled) == [kind |-> "extracted", tokens |-> tokens, pooled |-> pooled]

\* tokens with a default pooled output of zeros
WithZeros(tokens) ==
    LET n == SizeLast(tokens)
    IN IF IsError(n) THEN n ELSE Extracted(tokens, Zeros1(n.n))

\* the branches that set clip_tokens and clip_pooled
ClipBranches(c) ==
    IF c.kind = "list" /\ Len(c.items) = 1
    THEN IF c.items[1].kind = "list" /\ Len(c.items[1].items) = 2
         THEN LET inner_list == c.items[1].items
              IN IF IsTensor(inner_list[1]) /\ inner_list[2].kind = "dict"
                 THEN IF "pooled_output" \in DOMAIN inner_list[2].entries
                      THEN Extracted(inner_list[1], inner_list[2].entries.pooled_output)
                      ELSE WithZeros(inner_list[1])
                 ELSE Extracted(PyNone, PyNone)
         ELSE Extracted(PyNone, PyNone)
    ELSE IF IsSeq(c) /\ Len(c.items) >= 2
    THEN Extracted(c.items[1], c.items[2])
    ELSE IF IsTensor(c)
    THEN WithZeros(c)
    ELSE Extracted(PyNone, PyNone)

\* clip extraction with its checks and the prints of .shape
ExtractClip(c) ==
    LET e == ClipBranches(c)
    IN IF IsError(e) THEN e
       ELSE IF e.tokens = PyNone
       THEN Raise("ValueError", <<Lit("Could not extract tensor from clip_conditioning: "),
                                  TextPart(c.kind)>>)
       ELSE IF ~IsTensor(e.tokens) THEN Raise("AttributeError", <<Lit("shape")>>)
       ELSE IF e.pooled # PyNone /\ ~IsTensor(e.pooled)
       THEN Raise("AttributeError", <<Lit("shape")>>)
       ELSE e

\* the branches that set t5_embeds
T5Branches(t) ==
    IF t.kind = "list" /\ Len(t.items) = 1
    THEN IF t.items[1].kind = "list" /\ Len(t.items[1].items) = 2
         THEN IF IsTensor(t.items[1].items[1]) THEN t.items[1].items[1] ELSE PyNone
         ELSE PyNone
    ELSE IF IsSeq(t) /\ Len(t.items) >= 2
    THEN t.items[1]
    ELSE IF IsTensor(t)
    THEN t
    ELSE IF IsSeq(t) /\ Len(t.items) = 1
    THEN IF IsTensor(t.items[1]) THEN t.items[1] ELSE PyNone
    ELSE PyNone

ExtractT5(t) ==
    LET t5_embeds == T5Branches(t)
    IN IF t5_embeds = PyNone
       THEN Raise("ValueError", <<Lit("Could not extract tensor from t5_conditioning: "),
                                  TextPart(t.kind)>>)
       ELSE IF ~IsTensor(t5_embeds)
       THEN Raise("ValueError", <<Lit("t5_embeds must be a tensor, got "),
                                  TextPart(t5_embeds.kind)>>)
       ELSE t5_embeds

FusedTokensAlphaIgnored(clip_tokens, t5_embeds, alpha) ==
    LET pooled == MeanDim1(t5_embeds)
        t5_vec == Divide(pooled, AddScalar(NormLastKeep(pooled), Eps))
        unsq == Unsqueeze1(t5_vec)
        n == Size1(clip_tokens)
        t5_tokens == IF IsError(unsq) THEN unsq
                     ELSE IF IsError(n) THEN n
                     ELSE Repeat(unsq, <<1, n.n, 1>>)
    IN Add(clip_tokens, t5_tokens)

FusedTokensNotNormalised(clip_tokens, t5_embeds, alpha) ==
    LET pooled == MeanDim1(t5_embeds)
        unsq == Unsqueeze1(pooled)
        n == Size1(clip_tokens)
        t5_tokens == IF IsError(unsq) THEN unsq
                     ELSE IF IsError(n) THEN n
                     ELSE Repeat(unsq, <<1, n.n, 1>>)
    IN Add(clip_tokens, Scale(alpha, t5_tokens))

\* mean-pool, L2-normalise, broadcast and add
FusedTokens(clip_tokens, t5_embeds, alpha) ==
    LET pooled == MeanDim1(t5_embeds)
        t5_vec == Divide(pooled, AddScalar(NormLastKeep(pooled), Eps))
        unsq == Unsqueeze1(t5_vec)
        n == Size1(clip_tokens)
        t5_tokens == IF IsError(unsq) THEN unsq
                     ELSE IF IsError(n) THEN n
                     ELSE Repeat(unsq, <<1, n.n, 1>>)
    IN Add(clip_tokens, Scale(alpha, t5_tokens))

\* the conditioning built around the fused tokens
ResultFormat(c, fused_tokens, clip_pooled) ==
    IF c.kind = "list" /\ Len(c.items) = 1 /\ c.items[1].kind = "list"
    THEN PyList(<<PyList(<<fused_tokens, c.items[1].items[2]>>)>>)
    ELSE PyTuple(<<fused_tokens, clip_pooled>>)

\* the body of the try block
FuseTry(c, t, alpha) ==
    LET e == ExtractClip(c)
        t5_embeds == IF IsError(e) THEN e ELSE ExtractT5(t)
        fused_tokens == IF IsError(t5_embeds) THEN t5_embeds
                        ELSE FusedTokens(e.tokens, t5_embeds, alpha)
    IN IF IsError(fused_tokens) THEN fused_tokens
       ELSE Return(<<ResultFormat(c, fused_tokens, e.pooled)>>)

\* fuse: the debug prints, the try block and the except clause
Fuse(c, t, alpha) ==
    LET n == PyLen(c)
        r == FuseTry(c, t, alpha)
    IN IF IsError(n) THEN [outcome |-> n, fallback |-> FALSE]
       ELSE IF IsError(r) THEN [outcome |-> Return(<<c>>), fallback |-> TRUE]
       ELSE [outcome |-> r, fallback |-> FALSE]

fuse ==
    /\ node = "fusion"
    /\ pc = "start"
    /\ LET f == Fuse(args.clip_conditioning, args.t5_conditioning, args.alpha)
       IN /\ outcome' = f.outcome
          /\ log' = IF f.fallback
                    THEN Append(log, "ERROR in ai4artsed_t5_clip_fusion")
                    ELSE log
    /\ pc' = "done"
    /\ UNCHANGED <<node, args, env, sent, reply, opened, handed>>

(***************************************************************************)
(* The calls the host makes and the replies the endpoint gives.            *)
(***************************************************************************)
NoReply == [kind |-> "none"]

Statuses == {200, 401, 500}

Contents == {<<>>, <<"o">>, <<" ", "o", "\n">>}

Choice(c) == JObj([message |-> JObj([role |-> JStr(<<"assistant">>), content |-> c])])

Completion(choices) == JObj([id |-> JStr(<<"gen">>), choices |-> JArr(choices)])

Bodies ==
    {Completion(<<Choice(JStr(c))>>) : c \in Contents}
        \cup {Completion(<<Choice(JStr(<<"o">>)), Choice(JStr(<<"x">>))>>),
              Completion(<<Choice(JNull)>>),
              Completion(<<>>),
              JObj([error |-> JObj([message |-> JStr(<<"e">>)])]),
              RawText(<<"<html>">>)}

Replies == {Response(st, b) : st \in Statuses, b \in Bodies} \cup {NetError}

ApiKeys == {<<>>, <<" ">>, <<"k">>, <<" ", "k", "\n">>}

KeyFiles ==
    {[state |-> st, content |-> <<>>] : st \in {"FileNotFoundError", "PermissionError"}}
        \cup {[state |-> "ok", content |-> c] : c \in {<<>>, <<"\n">>, <<"f", "\n">>}}

TextCalls ==
    [input_prompt : {<<"p">>, <<" ", "p", "\n">>},
     input_context : {<<"c">>},
     style_prompt : {<<"s", " ">>},
     api_key : ApiKeys,
     model : {"openai/o3", "deepseek/deepseek-r1"},
     debug : {"enable", "disable"}]

MaxImageRank == 3

ImageDims == {1, 2, 3, 4}

ImageShapes == UNION {[1..r -> ImageDims] : r \in 1..MaxImageRank}

Images == {Image(dt, sh) : dt \in {"uint8", "float32"}, sh \in ImageShapes}

LaterImages == {<<>>, <<Image("float32", <<2, 2>>)>>, <<Image("uint8", <<3, 2, 2>>)>>}

ImageBatches == {<<>>} \cup {<<i>> \o rest : i \in Images, rest \in LaterImages}

VisionCalls ==
    [images : ImageBatches,
     instruction : {<<"d">>},
     api_key : {<<"s", "k">>},
     model : {"openai/gpt-4o"},
     max_tokens : {256},
     temperature : {<<7, 10>>}]

RelayInit ==
    /\ pc = "start"
    /\ \/ /\ node = "text"
          /\ args \in TextCalls
          /\ env \in [keyfile : KeyFiles, imencode_ok : {TRUE}]
       \/ /\ node = "vision"
          /\ args \in VisionCalls
          /\ env \in [keyfile : {[state |-> "FileNotFoundError", content |-> <<>>]},
                      imencode_ok : BOOLEAN]
    /\ sent = <<>>
    /\ reply = NoReply
    /\ opened = 0
    /\ handed = <<>>
    /\ log = <<>>
    /\ outcome = NoOutcome

RelayNext ==
    \/ run_send
    \/ \E r \in Replies : run_receive(r)
    \/ analyze_send
    \/ \E r \in Replies : analyze_receive(r)

RelaySpec == RelayInit /\ [][RelayNext]_vars

(***************************************************************************)
(* The conditionings the host hands to fuse.                               *)
(***************************************************************************)
MaxBatch == 2

MaxTokens == 2

MaxCells == 2

Whole(n) == <<n, 1>>

\* the row-major data of a sequence of rows of f features
Flatten(q, f) == [k \in 1..(Len(q) * f) |-> Whole(q[((k - 1) \div f) + 1][((k - 1) % f) + 1])]

RowLen(rows) == Len(CHOOSE r \in rows : TRUE)

Tensors3D(rows, b, n) ==
    {Tensor(<<b, n, RowLen(rows)>>, Flatten(q, RowLen(rows))) : q \in [1..(b * n) -> rows]}

TensorShapes == {bn \in (1..MaxBatch) \X (1..MaxTokens) : bn[1] * bn[2] <= MaxCells}

ClipRows == {<<0, 0>>, <<1, -1>>}

T5Rows == {<<0, 0>>, <<3, 4>>, <<-3, -4>>}

ClipTensors == UNION {Tensors3D(ClipRows, bn[1], bn[2]) : bn \in TensorShapes}

T5Tensors == UNION {Tensors3D(T5Rows, bn[1], bn[2]) : bn \in TensorShapes}

Alphas == {<<0, 1>>, <<1, 2>>, <<1, 1>>}

PooledSample == Tensor(<<1, 2>>, <<Whole(1), Whole(0)>>)

DictWithPooled == PyDict([pooled_output |-> PooledSample])

DictWithoutPooled == PyDict([guidance |-> PyNone])

Nested(t, d) == PyList(<<PyList(<<t, d>>)>>)

\* the documented forms of a conditioning around the token tensor t
DocumentedForms(t) ==
    {Nested(t, DictWithPooled), Nested(t, DictWithoutPooled),
     PyTuple(<<t, PooledSample>>), PyList(<<t, PooledSample>>),
     t, PyTuple(<<t>>), PyList(<<t>>)}

Scalar0d == Tensor(<<>>, <<Whole(1)>>)

ClipSamples ==
    {Tensor(<<1, 2, 2>>, <<Whole(1), Whole(-1), Whole(0), Whole(0)>>),
     Tensor(<<1, 1, 2>>, <<Whole(0), Whole(1)>>)}

T5Samples ==
    {Tensor(<<1, 2, 2>>, <<Whole(3), Whole(4), Whole(3), Whole(4)>>),
     Tensor(<<1, 1, 2>>, <<Whole(-3), Whole(-4)>>)}

OtherClipValues ==
    {PyNone, PyStr(<<"x">>), PyDict(<<>>), PyList(<<>>), Scalar0d, PooledSample,
     Tensor(<<1, 1, 2, 2>>, <<Whole(1), Whole(0), Whole(0), Whole(1)>>),
     Nested(Tensor(<<1, 1, 2>>, <<Whole(0), Whole(1)>>), PyStr(<<"x">>)),
     Nested(PyStr(<<"x">>), DictWithPooled),
     Nested(Scalar0d, DictWithoutPooled),
     PyTuple(<<PyStr(<<"x">>), PyStr(<<"y">>)>>),
     PyTuple(<<Tensor(<<1, 1, 2>>, <<Whole(0), Whole(1)>>), DictWithPooled>>),
     PyTuple(<<Tensor(<<1, 1, 2>>, <<Whole(0), Whole(1)>>), PyNone>>),
     PyTuple(<<Tensor(<<1, 1, 2>>, <<Whole(0), Whole(1)>>), PooledSample, PyNone>>)}

OtherT5Values ==
    {PyNone, PyStr(<<"x">>), PyDict(<<>>), PyList(<<>>), Scalar0d,
     Tensor(<<2>>, <<Whole(3), Whole(4)>>),
     Tensor(<<1, 2>>, <<Whole(3), Whole(4)>>),
     Tensor(<<2, 2>>, <<Whole(3), Whole(4), Whole(0), Whole(0)>>),
     Tensor(<<1, 2, 1>>, <<Whole(3), Whole(-1)>>),
     Tensor(<<1, 1, 3>>, <<Whole(1), Whole(2), Whole(2)>>),
     Tensor(<<1, 1, 1, 2>>, <<Whole(3), Whole(4)>>),
     Nested(PyStr(<<"x">>), DictWithPooled),
     PyTuple(<<PyStr(<<"x">>), PooledSample>>)}

\* every tensor of the bounded domain, wrapped as the host's nodes wrap it
ValueCalls ==
    [clip_conditioning : UNION {{Nested(t, DictWithPooled), PyTuple(<<t, PooledSample>>)}
                                    : t \in ClipTensors},
     t5_conditioning : T5Tensors,
     alpha : Alphas]

\* every form of container, documented or not, around sample tensors
FormCalls ==
    [clip_conditioning : UNION {DocumentedForms(t) : t \in ClipSamples} \cup OtherClipValues,
     t5_conditioning : UNION {DocumentedForms(t) : t \in T5Samples} \cup OtherT5Values,
     alpha : Alphas]

FusionInit ==
    /\ pc = "start"
    /\ node = "fusion"
    /\ args \in ValueCalls \cup FormCalls
    /\ env = [keyfile |-> [state |-> "FileNotFoundError", content |-> <<>>], imencode_ok |-> TRUE]
    /\ sent = <<>>
    /\ reply = NoReply
    /\ opened = 0
    /\ handed = <<>>
    /\ log = <<>>
    /\ outcome = NoOutcome

FusionNext == fuse

FusionSpec == FusionInit /\ [][FusionNext]_vars

(***************************************************************************)
(* Properties of the two relay nodes (checked under RelaySpec).            *)
(***************************************************************************)
Got(status_ok) ==
    /\ pc = "done"
    /\ reply.kind = "response"
    /\ (reply.status_code = 200) = status_ok

\* a body that parses and has a string at choices[0].message.content
WellFormed(b) ==
    /\ b.kind = "jobj"
    /\ "choices" \in DOMAIN b.f
    /\ b.f.choices.kind = "jarr"
    /\ Len(b.f.choices.a) >= 1
    /\ b.f.choices.a[1].kind = "jobj"
    /\ "message" \in DOMAIN b.f.choices.a[1].f
    /\ b.f.choices.a[1].f.message.kind = "jobj"
    /\ "content" \in DOMAIN b.f.choices.a[1].f.message.f
    /\ b.f.choices.a[1].f.message.f.content.kind = "jstr"

\* C1: after a 200 reply with a well-formed body, either relay node returns
\* the one-element tuple holding exactly the string at
\* choices[0].message.content, whatever the debug flag and the prompt.
C1_ContentVerbatim ==
    (Got(TRUE) /\ WellFormed(reply.text))
        => outcome = Return(<<reply.text.f.choices.a[1].f.message.f.content.s>>)

C1_Witness ==
    /\ Got(TRUE)
    /\ WellFormed(reply.text)
    /\ node = "text"
    /\ args.debug = "enable"
    /\ args.input_prompt = <<" ", "p", "\n">>
    /\ outcome.kind = "return"
    /\ outcome.value = <<<<" ", "o", "\n">>>>

\* C2: after a reply whose status is not 200, either relay node raises an
\* exception whose message holds that status code and the reply body, and
\* returns nothing.
C2_ErrorCarriesStatusAndBody ==
    Got(FALSE)
        => /\ outcome.kind = "raise"
           /\ HasStatus(outcome.msg, reply.status_code)
           /\ HasText(outcome.msg, reply.text)

C2_Witness ==
    /\ Got(FALSE)
    /\ node = "vision"
    /\ reply.status_code = 500
    /\ WellFormed(reply.text)
    /\ outcome.kind = "raise"

\* no credential: a blank inline key, and a key file that is absent,
\* unreadable or holds no token
NoCredential ==
    /\ Strip(args.api_key) = <<>>
    /\ \/ env.keyfile.state # "ok"
       \/ Strip(env.keyfile.content) = <<>>

\* C3: a call of run that resolves no credential raises the fixed message
\* and never sends an empty bearer token; a non-blank inline key is used
\* stripped, without opening the key file.
C3_NoCredentialRaises ==
    (node = "text" /\ pc # "start")
        => /\ NoCredential => (outcome = Raise("Exception", NoKeyMsg) /\ sent = <<>>)
           /\ \A i \in DOMAIN sent : sent[i].bearer # <<>>
           /\ Strip(args.api_key) # <<>>
                => (opened = 0 /\ \A i \in DOMAIN sent : sent[i].bearer = Strip(args.api_key))

\* the shape C8 calls recognised: three axes, with a channel count first or last
RecognisedImage(sh) == Len(sh) = 3 /\ (sh[1] \in {1, 3, 4} \/ sh[3] \in {1, 3, 4})

\* C8: analyze raises for a first image of unrecognised shape; for a
\* recognised one the array handed to the encoder has three axes with the
\* channels first, moved from the last axis when needed.  Both depend on
\* images[0] alone.
C8_ImageShape ==
    (node = "vision" /\ pc # "start" /\ args.images # <<>>)
        => LET sh == args.images[1].shape
           IN IF RecognisedImage(sh)
              THEN /\ Len(handed) = 1
                   /\ Len(handed[1].shape) = 3
                   /\ handed[1].shape[1] \in {1, 3, 4}
                   /\ handed[1].shape =
                        IF sh[1] \in {1, 3, 4} THEN sh ELSE <<sh[3], sh[1], sh[2]>>
              ELSE /\ pc = "done"
                   /\ outcome.kind = "raise"
                   /\ outcome.exc = "ValueError"
                   /\ handed = <<>>
                   /\ sent = <<>>

C8_Witness ==
    /\ node = "vision"
    /\ pc # "start"
    /\ Len(args.images) = 2
    /\ args.images[1].shape = <<2, 2, 3>>
    /\ args.images[2].shape = <<2, 2>>
    /\ handed = <<Image(args.images[1].dtype, <<3, 2, 2>>)>>

\* C9: an invocation of a relay node issues at most one request, exactly
\* one when it returns a value, none when it fails before the request
\* (credential, image validation, encoding), and none again after a reply.
C9_SingleRequest ==
    /\ Len(sent) <= 1
    /\ outcome.kind = "return" => Len(sent) = 1
    /\ reply # NoReply => Len(sent) = 1
    /\ (pc = "done" /\ reply = NoReply) => (sent = <<>> /\ outcome.kind = "raise")
    /\ (node = "text" /\ sent # <<>>)
            => (Strip(args.api_key) # <<>> \/ env.keyfile.state = "ok")
    /\ (node = "vision" /\ sent # <<>>)
            => (args.images # <<>> /\ RecognisedImage(args.images[1].shape)
                    /\ Len(handed) = 1 /\ env.imencode_ok)

C9_Witness ==
    /\ pc = "done"
    /\ node = "text"
    /\ reply.kind = "response"
    /\ reply.status_code = 401
    /\ outcome.kind = "raise"
    /\ Len(sent) = 1

(***************************************************************************)
(* Properties of the fusion node (checked under FusionSpec).               *)
(***************************************************************************)
IsNestedPair(x) ==
    /\ x.kind = "list"
    /\ Len(x.items) = 1
    /\ x.items[1].kind = "list"
    /\ Len(x.items[1].items) = 2
    /\ IsTensor(x.items[1].items[1])
    /\ x.items[1].items[2].kind = "dict"

IsPair(x) == IsSeq(x) /\ Len(x.items) = 2 /\ IsTensor(x.items[1]) /\ IsTensor(x.items[2])

IsSingle(x) == IsSeq(x) /\ Len(x.items) = 1 /\ IsTensor(x.items[1])

\* the token tensor inside a conditioning given in a documented form:
\* a bare tensor, [[tensor, dict]], a one-element tuple or list, or a
\* tuple or list that starts with the tokens
TokensOf(x) ==
    IF IsTensor(x) THEN x
    ELSE IF IsNestedPair(x) THEN x.items[1].items[1]
    ELSE IF IsSingle(x) THEN x.items[1]
    ELSE IF IsSeq(x) /\ Len(x.items) >= 2 /\ IsTensor(x.items[1]) THEN x.items[1]
    ELSE PyNone

\* a documented form around a (batch, tokens, features) tensor
Documented(x) ==
    /\ IsTensor(x) \/ IsNestedPair(x) \/ IsSingle(x) \/ IsPair(x)
    /\ Len(TokensOf(x).shape) = 3

\* the forms both extractions accept: all documented ones but the
\* one-element tuple or list
Standard(x) ==
    /\ IsTensor(x) \/ IsNestedPair(x) \/ IsPair(x)
    /\ Len(TokensOf(x).shape) = 3

ClipIn == TokensOf(args.clip_conditioning)

T5In == TokensOf(args.t5_conditioning)

\* same batch size and feature size: the shapes the arithmetic is written for
Combinable == ClipIn.shape[1] = T5In.shape[1] /\ ClipIn.shape[3] = T5In.shape[3]

Fused == pc = "done" /\ outcome.kind = "return" /\ log = <<>>

\* element (b, p, f), counted from 0, of a (batch, tokens, features) tensor
El(t, b, p, f) == t.data[((b * t.shape[2] + p) * t.shape[3]) + f + 1]

PooledMean(t, b, f) ==
    RDiv(SeqSum([n \in 1..t.shape[2] |-> El(t, b, n - 1, f)]), <<t.shape[2], 1>>)

PooledNorm(t, b) ==
    RSqrt(SeqSum([f \in 1..t.shape[3] |->
                    RMul(PooledMean(t, b, f - 1), PooledMean(t, b, f - 1))]))

Positions(t) == (0..(t.shape[1] - 1)) \X (0..(t.shape[2] - 1)) \X (0..(t.shape[3] - 1))

\* a conditioning from which a (batch, tokens, features) tensor can be read
\* at all, pooled value or not
Parseable(x) == TokensOf(x) # PyNone /\ Len(TokensOf(x).shape) = 3

\* batch sizes and feature sizes that are equal or broadcast
CanCombine ==
    \A j \in {1, 3} :
        ClipIn.shape[j] = T5In.shape[j] \/ ClipIn.shape[j] = 1 \/ T5In.shape[j] = 1

\* C4: for a pair of inputs whose form, element type or shape is not
\* recognised or does not combine, fuse raises nothing and returns the
\* one-element tuple holding the clip_conditioning it was given.
C4_FallbackOnUnrecognised ==
    (pc = "done"
       /\ ~(Parseable(args.clip_conditioning) /\ Parseable(args.t5_conditioning)
              /\ CanCombine))
        => outcome = Return(<<args.clip_conditioning>>)

\* C5: with alpha = 0 and two equal-shape inputs in documented forms, the
\* token tensor of the returned conditioning is the CLIP token tensor,
\* whatever the T5 tokens are.
C5_AlphaZeroIsClip ==
    (pc = "done" /\ args.alpha = Zero
       /\ Documented(args.clip_conditioning) /\ Documented(args.t5_conditioning)
       /\ ClipIn.shape = T5In.shape)
        => /\ outcome.kind = "return"
           /\ TokensOf(outcome.value[1]) = ClipIn

C5_Witness ==
    /\ Fused
    /\ args.alpha = Zero
    /\ IsNestedPair(args.clip_conditioning)
    /\ IsTensor(args.t5_conditioning)
    /\ ClipIn.shape = <<1, 2, 2>>
    /\ T5In.shape = ClipIn.shape
    /\ T5In.data = <<Whole(3), Whole(4), Whole(0), Whole(0)>>
    /\ TokensOf(outcome.value[1]) = ClipIn

\* C6 as stated: on two equal-shape inputs every returned token is the CLIP
\* token plus alpha times the T5 mean of its batch entry divided by the L2
\* norm of that mean.
C6_AddsMeanOverNorm ==
    (pc = "done"
       /\ Standard(args.clip_conditioning) /\ Standard(args.t5_conditioning)
       /\ ClipIn.shape = T5In.shape)
        => /\ Fused
           /\ TokensOf(outcome.value[1]).shape = ClipIn.shape
           /\ \A i \in Positions(ClipIn) :
                /\ PooledNorm(T5In, i[1]) # Zero
                /\ El(TokensOf(outcome.value[1]), i[1], i[2], i[3])
                     = RAdd(El(ClipIn, i[1], i[2], i[3]),
                            RMul(args.alpha,
                                 RDiv(PooledMean(T5In, i[1], i[3]), PooledNorm(T5In, i[1]))))

\* C6, amended: on two equal-shape inputs, each a bare tensor, a
\* (tokens, pooled) tuple or list or [[tensor, dict]], every returned token
\* is the CLIP token plus alpha times the T5 mean of its batch entry divided
\* by (the L2 norm of that mean + 1e-8); the same vector is added at every
\* position, and a zero mean adds nothing.
C6_AddsMeanOverNormPlusEps ==
    (pc = "done"
       /\ Standard(args.clip_conditioning) /\ Standard(args.t5_conditioning)
       /\ ClipIn.shape = T5In.shape)
        => /\ Fused
           /\ TokensOf(outcome.value[1]).shape = ClipIn.shape
           /\ \A i \in Positions(ClipIn) :
                El(TokensOf(outcome.value[1]), i[1], i[2], i[3])
                  = RAdd(El(ClipIn, i[1], i[2], i[3]),
                         RMul(args.alpha,
                              RDiv(PooledMean(T5In, i[1], i[3]),
                                   RAdd(PooledNorm(T5In, i[1]), Eps))))

C6_Witness ==
    /\ Fused
    /\ args.alpha = <<1, 1>>
    /\ IsPair(args.clip_conditioning)
    /\ IsTensor(args.t5_conditioning)
    /\ ClipIn.shape = <<1, 2, 2>>
    /\ T5In.shape = ClipIn.shape
    /\ T5In.data = <<Whole(3), Whole(4), Whole(0), Whole(0)>>
    /\ El(TokensOf(outcome.value[1]), 0, 1, 0)
         = RAdd(El(ClipIn, 0, 1, 0), <<150000000, 250000001>>)

\* C7: given well-shaped tensors in any documented form (pair, bare tensor,
\* one-element tuple or list, [[tensor, dict]]), fuse returns the fused
\* result and does not take the fallback.
C7_DocumentedFormsFuse ==
    (pc = "done"
       /\ Documented(args.clip_conditioning) /\ Documented(args.t5_conditioning)
       /\ Combinable)
        => Fused

\* C10: a successful fusion returns the container form it was given:
\* [[tokens, dict]] gives [[fused, the same dict]], a (tokens, pooled) tuple
\* or list gives the same kind of pair with the same pooled value, and a
\* bare tensor gives a bare tensor.
C10_SameContainerForm ==
    Fused
        => LET c == args.clip_conditioning
               r == outcome.value[1]
           IN /\ IsNestedPair(c) => (IsNestedPair(r) /\ r.items[1].items[2] = c.items[1].items[2])
              /\ IsPair(c) => (r.kind = c.kind /\ IsPair(r) /\ r.items[2] = c.items[2])
              /\ IsTensor(c) => IsTensor(r)

====
